---- MODULE Spec2Model ----
(***************************************************************************)
(* Model of the account ledger of app.py: the in-memory account list, the  *)
(* JSON file it is written through to, and the four business operations    *)
(* create_an_account, deposit_funds, issue_card and validate_transaction.  *)
(*                                                                         *)
(* Strings are sequences of one-character strings, so that str.strip() and *)
(* str.lower() are computed and not assumed.  Amounts and balances are     *)
(* Python floats in the program; they are modelled by integers (whole      *)
(* currency units, no NaN or infinity).  None is modelled by the empty     *)
(* sequence for card_number and by the string "None" for return values.    *)
(* The timestamp of a transaction is the minute datetime.utcnow() returns, *)
(* an input of validate_transaction.                                       *)
(*                                                                         *)
(* Spec runs the operations one call at a time, as a single request thread *)
(* does.  SpecRace runs two request threads against one account, with the  *)
(* load and the store of acct["balance"] += amount as separate steps.      *)
(***************************************************************************)
EXTENDS Integers, Sequences, FiniteSets, TLC

\* ---------------------------------------------------------------- bounds
MaxAccounts == 2
MaxTxns == 2
MaxAmount == 1
MaxBalance == 1
MaxDebt == 1
MaxMinute == 0

\* ---------------------------------------------------------------- inputs
Amounts == {0 - 1} \cup (0..MaxAmount)
PositiveAmounts == 1..MaxAmount
Balances == (0 - MaxDebt)..MaxBalance
Aids == 1..MaxAccounts
Threads == {1, 2}
\* datetime.utcnow(), in whole minutes
Minutes == 0..MaxMinute

NameInputs == { <<" ", "A", "l", " ">>, <<"A", "l">> }
EmailInputs == { <<"a", "@", "x">>,
                 <<" ", "A", "@", "X", " ">>,
                 <<"b", "@", "x">> }
EtypeInputs == { <<" ", "L", "a", "B", " ">>,
                 <<"S", "p", "a", " ">> }

\* ------------------------------------------------------- str.strip/lower
Whitespace == {" ", "\t", "\n"}
\* str.lower() on the ASCII letters; every other character is left as it is
ToLower == [A |-> "a", B |-> "b", C |-> "c", D |-> "d", E |-> "e", F |-> "f",
            G |-> "g", H |-> "h", I |-> "i", J |-> "j", K |-> "k", L |-> "l",
            M |-> "m", N |-> "n", O |-> "o", P |-> "p", Q |-> "q", R |-> "r",
            S |-> "s", T |-> "t", U |-> "u", V |-> "v", W |-> "w", X |-> "x",
            Y |-> "y", Z |-> "z"]

lower_char(c) == IF c \in DOMAIN ToLower THEN ToLower[c] ELSE c

lower(s) == [i \in 1..Len(s) |-> lower_char(s[i])]

RECURSIVE lstrip(_)
lstrip(s) ==
    IF s # <<>> /\ Head(s) \in Whitespace THEN lstrip(Tail(s)) ELSE s

RECURSIVE rstrip(_)
rstrip(s) ==
    IF s # <<>> /\ s[Len(s)] \in Whitespace
    THEN rstrip(SubSeq(s, 1, Len(s) - 1))
    ELSE s

strip(s) == rstrip(lstrip(s))

\* email.strip().lower()
normalize_email_nolower(email) == strip(email)
normalize_email_nostrip(email) == lower(email)
normalize_email(email) == lower(strip(email))

\* ------------------------------------------------------------ allow-list
ALLOWED_EXPENSES ==
    { <<"d", "o", "c", "t", "o", "r">>,
      <<"p", "r", "e", "s", "c", "r", "i", "p", "t", "i", "o", "n">>,
      <<"d", "e", "n", "t", "a", "l">>,
      <<"v", "i", "s", "i", "o", "n">>,
      <<"t", "h", "e", "r", "a", "p", "y">>,
      <<"l", "a", "b">> }

\* etype.strip().lower() not in ALLOWED_EXPENSES
category_denied(etype) == lower(strip(etype)) \notin ALLOWED_EXPENSES

\* amount > acct["balance"]
insufficient_funds_strict(amount, balance) == amount >= balance
insufficient_funds_lenient(amount, balance) == amount > balance + 1
insufficient_funds(amount, balance) == amount > balance

\* the record built at the top of validate_transaction, with its status set
txn_normalized(etype, amount, status, date) ==
    [type |-> lower(strip(etype)), amount |-> amount, status |-> status, date |-> date]
txn(etype, amount, status, date) ==
    [type |-> etype, amount |-> amount, status |-> status, date |-> date]

\* list.append
prepend(seq, x) == <<x>> \o seq
append(seq, x) == Append(seq, x)

\* ------------------------------------------------------------ card number
Digit == <<"0", "1", "2", "3", "4", "5", "6", "7", "8", "9">>

RECURSIVE decimal(_)
decimal(n) ==
    IF n < 10 THEN <<Digit[n + 1]>> ELSE decimal(n \div 10) \o <<Digit[(n % 10) + 1]>>

RECURSIVE zero_pad(_, _)
zero_pad(s, width) == IF Len(s) >= width THEN s ELSE zero_pad(<<"0">> \o s, width)

\* f"4000-0000-0000-{account_id:04d}"
card_number_unpadded(account_id) == <<"4000-0000-0000-">> \o decimal(account_id)
card_number(account_id) == <<"4000-0000-0000-">> \o zero_pad(decimal(account_id), 4)

NoCard == <<>>

\* ---------------------------------------------------------------- lookups
\* get_account: the position of the first account with that id, 0 for None
get_account(accs, aid) ==
    IF \E i \in 1..Len(accs) : accs[i].id = aid
    THEN CHOOSE i \in 1..Len(accs) :
            accs[i].id = aid /\ \A j \in 1..(i - 1) : accs[j].id # aid
    ELSE 0

\* get_account_by_email: the position of the first match, 0 for None
get_account_by_email(accs, email) ==
    LET e == normalize_email(email)
        hit(i) == normalize_email(accs[i].email) = e
    IN IF \E i \in 1..Len(accs) : hit(i)
       THEN CHOOSE i \in 1..Len(accs) : hit(i) /\ \A j \in 1..(i - 1) : ~hit(j)
       ELSE 0

\* new_id = len(accounts) + 1
new_id_reused(accs) == Len(accs)
new_id(accs) == Len(accs) + 1

new_account(accs, name, email) ==
    [name |-> strip(name),
     email |-> normalize_email(email),
     id |-> new_id(accs),
     balance |-> 0,
     card_number |-> NoCard,
     transactions |-> <<>>]

\* the value validate_transaction returns for an unknown account id
not_found_result_none == "None"
not_found_result == "denied"

\* ------------------------------------------------------------------ state
VARIABLES
    accounts,   \* the module-level list `accounts`
    db,         \* the list last written to DATA_FILE by save_data
    last,       \* the last call: operation, id or email given, value returned,
                \* the position of the account returned, whether it saved
    pc,         \* per request thread: the statement it is at
    req,        \* per request thread: the call it serves
    tmp,        \* per request thread: the balance it loaded for += / -=
    pending     \* per request thread: the txn dict built by validate_transaction

vars == <<accounts, db, last, pc, req, tmp, pending>>
threadVars == <<pc, req, tmp, pending>>

NoCall == [op |-> "none", email |-> <<>>, aid |-> 0,
           ret |-> "None", acct |-> 0, saved |-> FALSE]
NoReq == [op |-> "none", aid |-> 0, amount |-> 0, etype |-> <<>>]
NoTxn == txn(<<>>, 0, "None", 0)

TxnCount(accs) ==
    LET RECURSIVE sum(_)
        sum(i) == IF i = 0 THEN 0 ELSE Len(accs[i].transactions) + sum(i - 1)
    IN sum(Len(accs))

Init ==
    /\ accounts = <<>>
    /\ db = <<>>
    /\ last = NoCall
    /\ pc = [t \in Threads |-> "idle"]
    /\ req = [t \in Threads |-> NoReq]
    /\ tmp = [t \in Threads |-> 0]
    /\ pending = [t \in Threads |-> NoTxn]

\* ------------------------------------------------------------- operations
create_an_account(name, email) ==
    LET found == get_account_by_email(accounts, normalize_email(email))
        acct == new_account(accounts, name, email)
    IN IF found # 0
       THEN /\ last' = [NoCall EXCEPT !.op = "create", !.email = email]
            /\ UNCHANGED <<accounts, db>>
       ELSE /\ Len(accounts) < MaxAccounts
            /\ accounts' = append(accounts, acct)
            /\ db' = accounts'
            /\ last' = [NoCall EXCEPT !.op = "create", !.email = email,
                                      !.ret = "acct", !.acct = Len(accounts'),
                                      !.saved = TRUE]

deposit_funds(account_id, amount) ==
    LET i == get_account(accounts, account_id)
    IN IF i = 0
       THEN /\ last' = [NoCall EXCEPT !.op = "deposit", !.aid = account_id]
            /\ UNCHANGED <<accounts, db>>
       ELSE /\ accounts[i].balance + amount \in Balances
            /\ accounts' = [accounts EXCEPT ![i].balance = @ + amount]
            /\ db' = accounts'
            /\ last' = [NoCall EXCEPT !.op = "deposit", !.aid = account_id,
                                      !.ret = "acct", !.acct = i,
                                      !.saved = TRUE]

issue_card(account_id) ==
    LET i == get_account(accounts, account_id)
    IN IF i = 0
       THEN /\ last' = [NoCall EXCEPT !.op = "issue_card", !.aid = account_id]
            /\ UNCHANGED <<accounts, db>>
       ELSE IF accounts[i].card_number = NoCard
            THEN /\ accounts' = [accounts EXCEPT ![i].card_number = card_number(account_id)]
                 /\ db' = accounts'
                 /\ last' = [NoCall EXCEPT !.op = "issue_card", !.aid = account_id,
                                           !.ret = "acct", !.acct = i, !.saved = TRUE]
            ELSE /\ last' = [NoCall EXCEPT !.op = "issue_card", !.aid = account_id,
                                           !.ret = "acct", !.acct = i]
                 /\ UNCHANGED <<accounts, db>>

validate_transaction(account_id, amount, etype) ==
    LET i == get_account(accounts, account_id)
        call == [NoCall EXCEPT !.op = "validate", !.aid = account_id]
    IN IF i = 0
       THEN /\ last' = [call EXCEPT !.ret = not_found_result]
            /\ UNCHANGED <<accounts, db>>
       ELSE /\ TxnCount(accounts) < MaxTxns
            /\ \E now \in Minutes :
                 IF \/ category_denied(etype)
                    \/ insufficient_funds(amount, accounts[i].balance)
                 THEN /\ accounts' = [accounts EXCEPT ![i].transactions =
                                          append(@, txn(etype, amount, "denied", now))]
                      /\ last' = [call EXCEPT !.ret = "denied", !.saved = TRUE]
                 ELSE /\ accounts[i].balance - amount \in Balances
                      /\ accounts' = [accounts EXCEPT
                                          ![i].transactions =
                                              append(@, txn(etype, amount, "approved", now)),
                                          ![i].balance = @ - amount]
                      /\ last' = [call EXCEPT !.ret = "approved", !.saved = TRUE]
            /\ db' = accounts'

Create == \E name \in NameInputs, email \in EmailInputs :
             create_an_account(name, email) /\ UNCHANGED threadVars
Deposit == \E aid \in Aids, amount \in Amounts :
             deposit_funds(aid, amount) /\ UNCHANGED threadVars
IssueCard == \E aid \in Aids : issue_card(aid) /\ UNCHANGED threadVars
Validate == \E aid \in Aids, amount \in Amounts, etype \in EtypeInputs :
             validate_transaction(aid, amount, etype) /\ UNCHANGED threadVars

Next ==
    \/ Create
    \/ Deposit
    \/ IssueCard
    \/ Validate

Spec == Init /\ [][Next]_vars

\* ------------------------------------------------- concurrent request threads
\* Flask serves each request on its own thread; the threads share `accounts`
\* and nothing serialises them.  A thread runs one call of deposit_funds or
\* validate_transaction, one access to the shared account per step.

\* acct["balance"] += amount stores (the balance it loaded) + amount
inplace_add_atomic(current, loaded, amount) == current + amount
inplace_add(current, loaded, amount) == loaded + amount

RaceInit ==
    /\ \E b \in 0..MaxBalance :
          accounts = <<[new_account(<<>>, <<"A", "l">>, <<"a", "@", "x">>)
                            EXCEPT !.balance = b]>>
    /\ db = accounts
    /\ last = NoCall
    /\ pc = [t \in Threads |-> "idle"]
    /\ req = [t \in Threads |-> NoReq]
    /\ tmp = [t \in Threads |-> 0]
    /\ pending = [t \in Threads |-> NoTxn]

Goto(t, label) == pc' = [pc EXCEPT ![t] = label]
Acct(t) == get_account(accounts, req[t].aid)

\* deposit_route: a request to deposit arrives
receive_deposit(t) ==
    /\ pc[t] = "idle"
    /\ \E aid \in Aids, amount \in PositiveAmounts :
          req' = [req EXCEPT ![t] = [NoReq EXCEPT !.op = "deposit", !.aid = aid,
                                                  !.amount = amount]]
    /\ Goto(t, "deposit_lookup")
    /\ UNCHANGED <<accounts, db, tmp, pending, last>>

\* transaction_route: a request to spend arrives
receive_transaction(t) ==
    /\ pc[t] = "idle"
    /\ \E aid \in Aids, amount \in PositiveAmounts, etype \in EtypeInputs :
          req' = [req EXCEPT ![t] = [op |-> "validate", aid |-> aid,
                                     amount |-> amount, etype |-> etype]]
    /\ Goto(t, "validate_lookup")
    /\ UNCHANGED <<accounts, db, tmp, pending, last>>

deposit_lookup(t) ==
    /\ pc[t] = "deposit_lookup"
    /\ Goto(t, IF Acct(t) = 0 THEN "done" ELSE "deposit_load")
    /\ UNCHANGED <<accounts, db, req, tmp, pending, last>>

deposit_load(t) ==
    /\ pc[t] = "deposit_load"
    /\ tmp' = [tmp EXCEPT ![t] = accounts[Acct(t)].balance]
    /\ Goto(t, "deposit_store")
    /\ UNCHANGED <<accounts, db, req, pending, last>>

deposit_store(t) ==
    /\ pc[t] = "deposit_store"
    /\ accounts' = [accounts EXCEPT ![Acct(t)].balance =
                        inplace_add(@, tmp[t], req[t].amount)]
    /\ Goto(t, "save")
    /\ UNCHANGED <<db, req, tmp, pending, last>>

validate_lookup(t) ==
    /\ pc[t] = "validate_lookup"
    /\ Goto(t, IF Acct(t) = 0 THEN "done" ELSE "validate_check")
    /\ UNCHANGED <<accounts, db, req, tmp, pending, last>>

validate_check(t) ==
    /\ pc[t] = "validate_check"
    /\ \E now \in Minutes :
          pending' = [pending EXCEPT ![t] =
             txn(req[t].etype, req[t].amount,
                 IF \/ category_denied(req[t].etype)
                    \/ insufficient_funds(req[t].amount, accounts[Acct(t)].balance)
                 THEN "denied" ELSE "approved",
                 now)]
    /\ Goto(t, "validate_append")
    /\ UNCHANGED <<accounts, db, req, tmp, last>>

validate_append(t) ==
    /\ pc[t] = "validate_append"
    /\ accounts' = [accounts EXCEPT ![Acct(t)].transactions = append(@, pending[t])]
    /\ Goto(t, IF pending[t].status = "approved" THEN "validate_load" ELSE "save")
    /\ UNCHANGED <<db, req, tmp, pending, last>>

validate_load(t) ==
    /\ pc[t] = "validate_load"
    /\ tmp' = [tmp EXCEPT ![t] = accounts[Acct(t)].balance]
    /\ Goto(t, "validate_store")
    /\ UNCHANGED <<accounts, db, req, pending, last>>

validate_store(t) ==
    /\ pc[t] = "validate_store"
    /\ accounts' = [accounts EXCEPT ![Acct(t)].balance =
                        inplace_add(@, tmp[t], 0 - req[t].amount)]
    /\ Goto(t, "save")
    /\ UNCHANGED <<db, req, tmp, pending, last>>

save_data(t) ==
    /\ pc[t] = "save"
    /\ db' = accounts
    /\ Goto(t, "done")
    /\ UNCHANGED <<accounts, req, tmp, pending, last>>

RaceNext ==
    \/ \E t \in Threads : receive_deposit(t)
    \/ \E t \in Threads : receive_transaction(t)
    \/ \E t \in Threads : deposit_lookup(t)
    \/ \E t \in Threads : deposit_load(t)
    \/ \E t \in Threads : deposit_store(t)
    \/ \E t \in Threads : validate_lookup(t)
    \/ \E t \in Threads : validate_check(t)
    \/ \E t \in Threads : validate_append(t)
    \/ \E t \in Threads : validate_load(t)
    \/ \E t \in Threads : validate_store(t)
    \/ \E t \in Threads : save_data(t)

SpecRace == RaceInit /\ [][RaceNext]_vars

\* ------------------------------------------------------------------ steps
CreateStep(name, email) ==
    create_an_account(name, email) /\ UNCHANGED threadVars
DepositStep(aid, amount) ==
    deposit_funds(aid, amount) /\ UNCHANGED threadVars
IssueCardStep(aid) ==
    issue_card(aid) /\ UNCHANGED threadVars
ValidateStep(aid, amount, etype) ==
    validate_transaction(aid, amount, etype) /\ UNCHANGED threadVars

\* ------------------------------------------------- vocabulary of the claims
Normalized(s) == lower(strip(s))
AllowList == { <<"d", "o", "c", "t", "o", "r">>,
               <<"p", "r", "e", "s", "c", "r", "i", "p", "t", "i", "o", "n">>,
               <<"d", "e", "n", "t", "a", "l">>,
               <<"v", "i", "s", "i", "o", "n">>,
               <<"t", "h", "e", "r", "a", "p", "y">>,
               <<"l", "a", "b">> }
Known(aid) == \E i \in 1..Len(accounts) : accounts[i].id = aid
Pos(aid) == CHOOSE i \in 1..Len(accounts) : accounts[i].id = aid
AllNonNegative == \A i \in 1..Len(accounts) : accounts[i].balance >= 0
IsPrefix(s, t) == Len(s) <= Len(t) /\ SubSeq(t, 1, Len(s)) = s
\* the account at position i gained exactly the record r and nothing else of
\* its history changed
AppendedOne(i, r) == accounts'[i].transactions = Append(accounts[i].transactions, r)
\* the four decimal digits of an id below 10000
FourDigits(n) == << Digit[((n \div 1000) % 10) + 1], Digit[((n \div 100) % 10) + 1],
                    Digit[((n \div 10) % 10) + 1], Digit[(n % 10) + 1] >>

\* ------------------------------------------------------------------- C1
\* C1 as stated: validate on an account id that matches no account returns an
\* outcome NotFound that differs from the Denied outcome.
C1_NotFoundIsDistinct ==
    (last.op = "validate" /\ ~Known(last.aid)) => last.ret \notin {"approved", "denied"}

\* C1 as amended: validate on an account id that matches no account returns
\* "denied", the same value as a denial, appends no transaction record and
\* leaves the collection and the stored file unchanged (no save).
C1_UnknownAccountDenied ==
    [][ last'.op = "validate" =>
          \A aid \in Aids, amount \in Amounts, etype \in EtypeInputs :
             (ValidateStep(aid, amount, etype) /\ ~Known(aid)) =>
                /\ last'.ret = "denied"
                /\ last'.saved = FALSE
                /\ accounts' = accounts
                /\ db' = db ]_vars

C1_Witness ==
    /\ last.op = "validate"
    /\ ~Known(last.aid)
    /\ last.ret = "denied"
    /\ Len(accounts) >= 1

\* ------------------------------------------------------------------- C2
\* C2 as stated: in every reachable state every account's balance is >= 0.
C2_BalanceNonNegative == AllNonNegative

\* C2 as amended: balances start at 0 and no step other than a deposit of a
\* negative amount takes the balances from all >= 0 to one below 0.
C2_NonNegativeUnlessNegativeDeposit ==
    [][ (AllNonNegative /\ ~(\E aid \in Aids, amount \in Amounts :
                                amount < 0 /\ DepositStep(aid, amount)))
        => AllNonNegative' ]_vars

\* an approved transaction has just spent a whole positive balance
C2_Witness ==
    /\ last.op = "validate"
    /\ last.ret = "approved"
    /\ Known(last.aid)
    /\ accounts[Pos(last.aid)].balance = 0
    /\ accounts[Pos(last.aid)].transactions # <<>>
    /\ accounts[Pos(last.aid)].transactions[Len(accounts[Pos(last.aid)].transactions)].amount > 0

\* ------------------------------------------------------------------- C3
\* C3: no two distinct accounts have the same trimmed, lower-cased email.
C3_EmailsUnique ==
    \A i, j \in 1..Len(accounts) :
        i # j => Normalized(accounts[i].email) # Normalized(accounts[j].email)

\* two accounts exist and a further create was refused as a duplicate
C3_Witness ==
    /\ Len(accounts) >= 2
    /\ last.op = "create"
    /\ last.ret = "None"

\* ------------------------------------------------------------------- C4
\* C4: create with an email whose normalized form equals that of an existing
\* account returns None (duplicate) and leaves the collection and the stored
\* file unchanged, also when case or surrounding whitespace differ.
C4_DuplicateRefused ==
    [][ last'.op = "create" =>
          \A name \in NameInputs, email \in EmailInputs :
             ( /\ CreateStep(name, email)
               /\ \E i \in 1..Len(accounts) :
                     Normalized(accounts[i].email) = Normalized(email) ) =>
                /\ last'.ret = "None"
                /\ accounts' = accounts
                /\ db' = db ]_vars

\* a create was refused whose email differs from the stored one in case or
\* surrounding whitespace only
C4_Witness ==
    /\ last.op = "create"
    /\ last.ret = "None"
    /\ \E i \in 1..Len(accounts) :
          /\ Normalized(accounts[i].email) = Normalized(last.email)
          /\ accounts[i].email # last.email

\* ------------------------------------------------------------------- C5
\* C5: a successful create returns an account whose id is one more than the
\* number of accounts before the call, and the ids of the collection are
\* 1..n in insertion order.
C5_SequentialIds ==
    [][ /\ \A i \in 1..Len(accounts') : accounts'[i].id = i
        /\ (last'.op = "create" /\ last'.ret = "acct" /\ accounts' # accounts) =>
              /\ Len(accounts') = Len(accounts) + 1
              /\ last'.acct = Len(accounts')
              /\ accounts'[last'.acct].id = Len(accounts) + 1 ]_vars

C5_Witness ==
    /\ Len(accounts) >= 2
    /\ last.op = "create"
    /\ last.ret = "acct"
    /\ accounts[last.acct].id = 2

\* ------------------------------------------------------------------- C6
\* C6: on an existing account with a category in the allow-list, validate
\* approves 0 <= amount <= balance, appending one approved record and taking
\* amount off the balance, and denies amount > balance, appending one denied
\* record and leaving the balance unchanged.
C6_AllowedCategoryDecidedByBalance ==
    [][ last'.op = "validate" =>
          \A aid \in Aids, amount \in Amounts, etype \in EtypeInputs :
             ( /\ ValidateStep(aid, amount, etype)
               /\ Known(aid)
               /\ Normalized(etype) \in AllowList ) =>
                LET i == Pos(aid)
                    balance == accounts[i].balance
                    added == accounts'[i].transactions[Len(accounts[i].transactions) + 1]
                IN /\ (0 <= amount /\ amount <= balance) =>
                         /\ last'.ret = "approved"
                         /\ AppendedOne(i, added)
                         /\ added.status = "approved"
                         /\ accounts'[i].balance = balance - amount
                   /\ amount > balance =>
                         /\ last'.ret = "denied"
                         /\ AppendedOne(i, added)
                         /\ added.status = "denied"
                         /\ accounts'[i].balance = balance ]_vars

\* an allowed category written with other case and whitespace was approved
\* for the whole balance
C6_Witness ==
    /\ last.op = "validate"
    /\ last.ret = "approved"
    /\ Known(last.aid)
    /\ LET t == accounts[Pos(last.aid)].transactions
       IN /\ t # <<>>
          /\ t[Len(t)].amount = 1
          /\ t[Len(t)].type # Normalized(t[Len(t)].type)
          /\ accounts[Pos(last.aid)].balance = 0

\* ------------------------------------------------------------------- C7
\* C7: on an existing account with a category whose normalized form is not in
\* the allow-list, validate returns denied for every amount, appends one
\* denied record whose type is the category as submitted, and leaves the
\* balance unchanged.
C7_UnlistedCategoryDenied ==
    [][ last'.op = "validate" =>
          \A aid \in Aids, amount \in Amounts, etype \in EtypeInputs :
             ( /\ ValidateStep(aid, amount, etype)
               /\ Known(aid)
               /\ Normalized(etype) \notin AllowList ) =>
                LET i == Pos(aid)
                    added == accounts'[i].transactions[Len(accounts[i].transactions) + 1]
                IN /\ last'.ret = "denied"
                   /\ AppendedOne(i, added)
                   /\ added.status = "denied"
                   /\ added.type = etype
                   /\ added.amount = amount
                   /\ accounts'[i].balance = accounts[i].balance ]_vars

\* an unlisted category was denied although the balance covered the amount
C7_Witness ==
    /\ last.op = "validate"
    /\ last.ret = "denied"
    /\ Known(last.aid)
    /\ LET t == accounts[Pos(last.aid)].transactions
       IN /\ t # <<>>
          /\ Normalized(t[Len(t)].type) \notin AllowList
          /\ t[Len(t)].type # Normalized(t[Len(t)].type)
          /\ t[Len(t)].amount = 1
          /\ accounts[Pos(last.aid)].balance >= 1

\* ------------------------------------------------------------------- C8
\* C8: the first issueCard on an account sets card_number to 4000-0000-0000-
\* followed by the id zero-padded to 4 digits; a later issueCard succeeds,
\* returns the account with the same card number and changes neither the
\* collection nor the stored file; no step changes a card number once set.
C8_IssueCardIdempotent ==
    [][ /\ \A i \in 1..Len(accounts) :
              accounts[i].card_number # NoCard =>
                 /\ Len(accounts') >= i
                 /\ accounts'[i].card_number = accounts[i].card_number
        /\ last'.op = "issue_card" =>
              \A aid \in Aids :
                 (IssueCardStep(aid) /\ Known(aid)) =>
                    LET i == Pos(aid)
                    IN /\ last'.ret = "acct"
                       /\ last'.acct = i
                       /\ accounts'[i].card_number =
                             <<"4000-0000-0000-">> \o FourDigits(aid)
                       /\ accounts[i].card_number # NoCard =>
                             /\ accounts' = accounts
                             /\ db' = db
                             /\ last'.saved = FALSE ]_vars

\* issueCard was called again on the second account, which kept its card
C8_Witness ==
    /\ last.op = "issue_card"
    /\ last.ret = "acct"
    /\ last.saved = FALSE
    /\ last.acct = 2
    /\ accounts[2].card_number = <<"4000-0000-0000-", "0", "0", "0", "2">>

\* ------------------------------------------------------------------- C9
AllDone == \A t \in Threads : pc[t] = "done"
\* what the call of thread t added to the balance it loaded
Delta(t) ==
    IF req[t].op = "deposit" /\ Known(req[t].aid) THEN req[t].amount
    ELSE IF req[t].op = "validate" /\ pending[t].status = "approved"
         THEN 0 - req[t].amount
         ELSE 0
\* both calls changed the balance of the same account and loaded the same
\* balance: neither stored before the other loaded
Interleaved ==
    /\ AllDone
    /\ req[1].aid = req[2].aid
    /\ Delta(1) # 0
    /\ Delta(2) # 0
    /\ tmp[1] = tmp[2]
\* the balance one call leaves when it runs alone from balance b
After(b, r) ==
    IF r.op = "deposit" THEN b + r.amount
    ELSE IF Normalized(r.etype) \notin AllowList \/ r.amount > b THEN b
         ELSE b - r.amount

\* C9: when two deposit or validate calls on the same account interleave
\* their load and store of the balance, one update is lost: the final balance
\* is the loaded balance plus one call's change, never plus both.
C9_LostUpdate ==
    Interleaved =>
       LET b == accounts[Pos(req[1].aid)].balance
       IN /\ b \in {tmp[1] + Delta(1), tmp[1] + Delta(2)}
          /\ b # tmp[1] + Delta(1) + Delta(2)

\* the final balance is the result of neither sequential order of the calls
C9_Witness ==
    /\ Interleaved
    /\ accounts[Pos(req[1].aid)].balance \notin
          { After(After(tmp[1], req[1]), req[2]), After(After(tmp[1], req[2]), req[1]) }

\* ------------------------------------------------------------------ C10
\* C10: across every step each account's transaction history only grows at
\* its end, by at most one record, only by a validate call on that account,
\* and every recorded status is approved or denied.
C10_HistoryAppendOnly ==
    [][ \A i \in 1..Len(accounts) :
           /\ Len(accounts') >= i
           /\ IsPrefix(accounts[i].transactions, accounts'[i].transactions)
           /\ Len(accounts'[i].transactions) <= Len(accounts[i].transactions) + 1
           /\ Len(accounts'[i].transactions) > Len(accounts[i].transactions) =>
                 \E amount \in Amounts, etype \in EtypeInputs :
                    ValidateStep(accounts[i].id, amount, etype)
           /\ \A k \in 1..Len(accounts'[i].transactions) :
                 accounts'[i].transactions[k].status \in {"approved", "denied"} ]_vars

\* an account holds an approved and then a denied record
C10_Witness ==
    /\ last.op = "validate"
    /\ \E i \in 1..Len(accounts) :
          /\ Len(accounts[i].transactions) = 2
          /\ accounts[i].transactions[1].status = "approved"
          /\ accounts[i].transactions[2].status = "denied"

====
